---- MODULE Spec2Model ----
(***************************************************************************)
(* demo/KleinGordon.py: the Klein-Gordon equation in the mixed form        *)
(*     f_t = div(grad(u)) - u + u*|u|**2,   u_t = f                        *)
(* on a periodic box, Fourier in space, ETDRK4 in time.                    *)
(*                                                                         *)
(* Fields are sampled on a two-point periodic section of the mesh, with    *)
(* integer amplitudes.  A spectral array is <<c_0, c_-1>>, the modes of    *)
(* (unscaled) wavenumbers n = 0, -1; a physical array is <<v_0, v_1>>.     *)
(* A mixed array (space TT) is <<f-part, u-part>>, as in "f, u = fu[:]".   *)
(* Space descriptions (sizes, dtypes, shapes) keep the script's N = 32.    *)
(***************************************************************************)
EXTENDS Integers, Sequences, FiniteSets, TLC

VARIABLES pc, par, nranks, Tp, ulX, fu, fu_hat, dfu_hat, up, count,
          tstep, ran, log

vars == <<pc, par, nranks, Tp, ulX, fu, fu_hat, dfu_hat, up, count,
          tstep, ran, log>>

(* ---------------------------------------------------------------- bounds *)
MaxAmp == 1
MaxRanks == 2
MaxTstep == 200
MaxPeriod == 3
MaxParSteps == 6
MaxCalls == 2

(* ------------------------------------------------------ script constants *)
N == 32
gamma == 1
EndTime == 100
InvDt == 200

(* par of __main__; end_time is counted in steps of dt = 1/InvDt *)
ShippedPar ==
  [write_slice_tstep |-> 10,
   write_tstep |-> 50,
   Compute_energy |-> 100,
   plot_tstep |-> 100,
   end_time |-> EndTime * InvDt]

(* ----------------------------------------------------- function spaces *)
Basis(n, family, dtype, domain, padding_factor) ==
  [N |-> n, family |-> family, dtype |-> dtype, domain |-> domain,
   padding_factor |-> padding_factor]

(* domain in units of pi; padding_factor as <<numerator, denominator>> *)
K0 == Basis(N, "F", "D", <<-2, 2>>, <<1, 1>>)
K1 == Basis(N, "F", "D", <<-2, 2>>, <<1, 1>>)
K2 == Basis(N, "F", "d", <<-2, 2>>, <<1, 1>>)
T == <<K0, K1, K2>>

Kp0 == Basis(N, "F", "D", <<-2, 2>>, <<3, 2>>)
Kp1 == Basis(N, "F", "D", <<-2, 2>>, <<3, 2>>)
Kp2 == Basis(N, "F", "D", <<-2, 2>>, <<3, 2>>)
PaddedSpace == <<Kp0, Kp1, Kp2>>

(* Shape of the spectral coefficients of a tensor product space: a real   *)
(* ('d') last axis keeps the N//2 + 1 non-negative wavenumbers only.       *)
SpectralShape(space) ==
  [i \in 1..Len(space) |->
     IF i = Len(space) /\ space[i].dtype = "d"
     THEN (space[i].N \div 2) + 1
     ELSE space[i].N]

(* Tp.backward(u_hat, up) copies u_hat into Tp's spectral work array, and *)
(* Tp.forward(., df_hat) copies that array out into df_hat: both need the *)
(* shapes of T's coefficients and of Tp's to agree.                       *)
Accepts(space) == SpectralShape(space) = SpectralShape(T)

(* ------------------------------------------------------ transform pair *)
Zero == <<0, 0>>

(* u_j = sum_n c_n exp(i n X_j), X_j = 0, pi *)
Backward(c) == <<c[1] + c[2], c[1] - c[2]>>

(* c_n = (1/2) sum_j u_j exp(-i n X_j) *)
Forward(v) == <<(v[1] + v[2]) \div 2, (v[1] - v[2]) \div 2>>

(* Function(TT).backward(fu): both components *)
BackwardTT(h) == <<Backward(h[1]), Backward(h[2])>>

(* 4*|k|^2 for the scaled wavenumber k = n/2 of the domain (-2pi, 2pi) *)
FourKSq == <<0, 1>>

(* L = inner(grad(vh), -grad(uh)) - inner(vh, gamma*uh), per mode *)
LTimes(c) == [i \in 1..2 |-> (-(FourKSq[i] + 4 * gamma) * c[i]) \div 4]

Cube(v) == [j \in 1..2 |-> v[j] * v[j] * v[j]]
Scale(a, v) == [j \in 1..2 |-> a * v[j]]
Plus(a, b) == [j \in 1..2 |-> a[j] + b[j]]

(* -------------------------------------------------------- NonlinearRHS *)
(* A mutation: the rate of u is taken from u_hat instead of f_hat. *)
NonlinearRHS_uFromU(h, d) ==
  LET u_hat == h[2]
      upn == Backward(u_hat)
  IN  [dfu_hat |-> <<Plus(Forward(Scale(gamma, Cube(upn))), LTimes(u_hat)), u_hat>>,
       up |-> upn]

(* h is fu_hat, d the dfu_hat passed in; the result is the dfu_hat         *)
(* returned and the global up.                                             *)
NonlinearRHS(h, d) ==
  LET d0 == <<Zero, Zero>>                               \* dfu_hat.fill(0)
      f_hat == h[1]
      u_hat == h[2]
      upn == Backward(u_hat)                             \* up = Tp.backward(u_hat, up)
      d1 == <<Forward(Scale(gamma, Cube(upn))), d0[2]>>  \* df_hat = Tp.forward(gamma*up**3, df_hat)
      d2 == <<Plus(d1[1], LTimes(u_hat)), d1[2]>>        \* df_hat += L*u_hat
      d3 == <<d2[1], f_hat>>                             \* du_hat[:] = f_hat
  IN  [dfu_hat |-> d3, up |-> upn]

(* -------------------------------------------------------------- update *)
(* One entry of what a call of update does, in order: the operation, and  *)
(* for a read of the physical fields the array that was read.             *)
Ev(op) == [op |-> op, data |-> <<>>]
Rd(op, a) == [op |-> op, data |-> a]

(* Python's a % b for a >= 0 and b # 0: the result has the sign of b *)
PyMod(a, b) ==
  IF b > 0 THEN a % b
  ELSE LET m == a % (0 - b) IN IF m = 0 THEN 0 ELSE m + b

(* fu = fu_hat.backward(fu): writes the rank's fu in place *)
Transform(s, h) ==
  [s EXCEPT !.log = Append(s.log, Ev("backward")), !.fu = BackwardTT(h)]

ZeroDivisionError(s) == [s EXCEPT !.raised = TRUE]

(* A mutation: the plot branch does not record that it transformed. *)
PlotBranch_NoFlag(s, r, ts, p, h) ==
  IF r # 0 THEN s
  ELSE IF p.plot_tstep = 0 THEN ZeroDivisionError(s)
  ELSE IF PyMod(ts, p.plot_tstep) = 0 /\ p.plot_tstep > 0
  THEN LET s1 == Transform(s, h)
       IN  [s1 EXCEPT !.log = Append(s1.log, Rd("plot", s1.fu[2]))]
  ELSE s

(* if rank == 0 and tstep % plot_tstep == 0 and plot_tstep > 0: the       *)
(* conjuncts are evaluated left to right, the modulo before the sign test *)
PlotBranch(s, r, ts, p, h) ==
  IF r # 0 THEN s
  ELSE IF p.plot_tstep = 0 THEN ZeroDivisionError(s)
  ELSE IF PyMod(ts, p.plot_tstep) = 0 /\ p.plot_tstep > 0
  THEN LET s1 == Transform(s, h)
       IN  [s1 EXCEPT !.log = Append(s1.log, Rd("plot", s1.fu[2])),
                      !.transformed = TRUE]
  ELSE s

(* A mutation: the slice branch writes without transforming first. *)
SliceBranch_NoTransform(s, ts, p, h) ==
  IF s.raised THEN s
  ELSE IF p.write_slice_tstep = 0 THEN ZeroDivisionError(s)
  ELSE IF PyMod(ts, p.write_slice_tstep) = 0
  THEN [s EXCEPT !.log = Append(s.log, Rd("write_slice", s.fu))]
  ELSE s

SliceBranch(s, ts, p, h) ==
  IF s.raised THEN s
  ELSE IF p.write_slice_tstep = 0 THEN ZeroDivisionError(s)
  ELSE IF PyMod(ts, p.write_slice_tstep) = 0
  THEN LET s1 == IF s.transformed = FALSE
                 THEN [Transform(s, h) EXCEPT !.transformed = TRUE]
                 ELSE s
       IN  [s1 EXCEPT !.log = Append(s1.log, Rd("write_slice", s1.fu))]
  ELSE s

(* A mutation: the full field is written at the slice period. *)
FullBranch_SlicePeriod(s, ts, p, h) ==
  IF s.raised THEN s
  ELSE IF p.write_slice_tstep = 0 THEN ZeroDivisionError(s)
  ELSE IF PyMod(ts, p.write_slice_tstep) = 0
  THEN LET s1 == IF s.transformed = FALSE
                 THEN [Transform(s, h) EXCEPT !.transformed = TRUE]
                 ELSE s
       IN  [s1 EXCEPT !.log = Append(s1.log, Rd("write_full", s1.fu))]
  ELSE s

FullBranch(s, ts, p, h) ==
  IF s.raised THEN s
  ELSE IF p.write_tstep = 0 THEN ZeroDivisionError(s)
  ELSE IF PyMod(ts, p.write_tstep) = 0
  THEN LET s1 == IF s.transformed = FALSE
                 THEN [Transform(s, h) EXCEPT !.transformed = TRUE]
                 ELSE s
       IN  [s1 EXCEPT !.log = Append(s1.log, Rd("write_full", s1.fu))]
  ELSE s

(* ekin, es (energy_fourier reduces over comm), eg, gradu, ep, ea, the    *)
(* line printed by rank 0, the barrier                                    *)
Diagnostics(r, a, printers) ==
  <<Ev("energy_fourier"), Ev("energy_fourier"), Rd("energy", a),
    Ev("allreduce"), Ev("gradu_backward"), Ev("allreduce"), Ev("allreduce")>>
  \o (IF r \in printers THEN <<Ev("print")>> ELSE <<>>)
  \o <<Ev("barrier")>>

(* A mutation: every rank prints the diagnostics line. *)
EnergyBranch_AllPrint(s, r, ts, p, h) ==
  IF s.raised THEN s
  ELSE IF p.Compute_energy = 0 THEN ZeroDivisionError(s)
  ELSE IF PyMod(ts, p.Compute_energy) = 0
  THEN LET s1 == IF s.transformed = FALSE THEN Transform(s, h) ELSE s
       IN  [s1 EXCEPT !.log = s1.log \o Diagnostics(r, s1.fu, {r})]
  ELSE s

EnergyBranch(s, r, ts, p, h) ==
  IF s.raised THEN s
  ELSE IF p.Compute_energy = 0 THEN ZeroDivisionError(s)
  ELSE IF PyMod(ts, p.Compute_energy) = 0
  THEN LET s1 == IF s.transformed = FALSE THEN Transform(s, h) ELSE s
       IN  [s1 EXCEPT !.log = s1.log \o Diagnostics(r, s1.fu, {0})]
  ELSE s

(* update(self, fu, fu_hat, t, tstep, **params) on rank r; a is the       *)
(* rank's fu, h is fu_hat                                                 *)
update(r, a, h, ts, p) ==
  LET s0 == [log |-> <<>>, fu |-> a, transformed |-> FALSE, raised |-> FALSE]
      s1 == PlotBranch(s0, r, ts, p, h)
      s2 == SliceBranch(s1, ts, p, h)
      s3 == FullBranch(s2, ts, p, h)
  IN  EnergyBranch(s3, r, ts, p, h)

(* ------------------------------------------------------ bounded inputs *)
Amps == (0 - MaxAmp)..MaxAmp

(* Spectral inputs of NonlinearRHS.  The mode n = -1 of u_hat is a        *)
(* multiple of 4, so that L*u_hat, with |k|^2 = 1/4, is an integer.        *)
FHats == {<<a, 0 - a>> : a \in Amps}
UHats == {<<a, 4 * b>> : a \in Amps, b \in Amps}
RHSInputs == {<<fh, uh>> : fh \in FHats, uh \in UHats}

(* What a time step of the integrator may leave in fu_hat *)
StepVals == {<<<<a, 0 - a>>, <<a, 4 * a>>>> : a \in Amps}

(* ul(X...): the initial pulse sampled on the section, peak at x = 0 *)
Profiles == {<<0, 8 * a>> : a \in 1..MaxAmp}

(* Periods tried for the parameters of update *)
Periods == 1..MaxPeriod
PlotPeriods == {-1, 0} \cup Periods

Ranks == 0..(nranks - 1)

(* ------------------------------------------------- module initialisation *)
(* A mutation: the transform of u is kept in a new array named u_hat. *)
InitialCondition_Detached(a, h, profile) ==
  [fu |-> <<a[1], profile>>, fu_hat |-> h]

(* u[:] = ul(X...); u_hat = T.forward(u, u_hat), with f, u = fu[:] and      *)
(* f_hat, u_hat = fu_hat[:] views of the mixed arrays                     *)
InitialCondition(a, h, profile) ==
  LET a1 == <<a[1], profile>>
      h1 == <<h[1], Forward(a1[2])>>
  IN  [fu |-> a1, fu_hat |-> h1]

(* The module's arrays as allocated: Array(TT), Function(TT), Array(Tp) *)
Allocated(n, space, p) ==
  /\ nranks = n
  /\ Tp = space
  /\ par = p
  /\ fu = [r \in 0..(n - 1) |-> <<Zero, Zero>>]
  /\ fu_hat = <<Zero, Zero>>
  /\ dfu_hat = <<Zero, Zero>>
  /\ up = Zero
  /\ count = 0
  /\ tstep = 0
  /\ ran = {}
  /\ log = [r \in 0..(n - 1) |-> <<>>]

Initialize ==
  /\ pc = "alloc"
  /\ LET ic == [r \in Ranks |-> InitialCondition(fu[r], fu_hat, ulX)]
     IN  /\ fu' = [r \in Ranks |-> ic[r].fu]
         /\ fu_hat' = ic[0].fu_hat
  /\ pc' = "main"
  /\ UNCHANGED <<par, nranks, Tp, ulX, dfu_hat, up, count, tstep, ran, log>>

(* __main__: the file, par, ETDRK4(TT, N=NonlinearRHS, update=update),    *)
(* integrator.setup(dt), integrator.solve entered                         *)
Main ==
  /\ pc = "main"
  /\ pc' = "solve"
  /\ UNCHANGED <<par, nranks, Tp, ulX, fu, fu_hat, dfu_hat, up, count,
                 tstep, ran, log>>

(* -------------------------------------------------------- integrator *)
MoreSteps == tstep < par.end_time /\ tstep < MaxTstep

(* One pass of the loop of solve up to its call of update: the right-hand *)
(* side is evaluated at fu_hat, the step leaves some new fu_hat.          *)
SolveStep ==
  /\ pc = "solve"
  /\ MoreSteps
  /\ IF Accepts(Tp)
     THEN /\ \E h \in StepVals : fu_hat' = h
          /\ LET res == NonlinearRHS(fu_hat, dfu_hat)
             IN  /\ dfu_hat' = res.dfu_hat
                 /\ up' = res.up
          /\ count' = count + 1
          /\ tstep' = tstep + 1
          /\ ran' = {}
          /\ log' = [r \in Ranks |-> <<>>]
          /\ pc' = "update"
     ELSE /\ pc' = "error"
          /\ UNCHANGED <<fu_hat, dfu_hat, up, count, tstep, ran, log>>
  /\ UNCHANGED <<par, nranks, Tp, ulX, fu>>

UpdateRank(r) ==
  /\ pc = "update"
  /\ r \notin ran
  /\ LET res == update(r, fu[r], fu_hat, tstep, par)
     IN  /\ fu' = [fu EXCEPT ![r] = res.fu]
         /\ log' = [log EXCEPT ![r] = res.log]
         /\ pc' = IF res.raised THEN "error" ELSE pc
  /\ ran' = ran \cup {r}
  /\ UNCHANGED <<par, nranks, Tp, ulX, fu_hat, dfu_hat, up, count, tstep>>

(* The operations of a call that every rank of comm must enter together *)
CollectiveOps ==
  {"backward", "write_slice", "write_full", "energy_fourier", "allreduce",
   "gradu_backward", "barrier"}

OpsOf(l) == [i \in 1..Len(l) |-> l[i].op]
IsCollective(e) == e.op \in CollectiveOps
Collectives(l) == OpsOf(SelectSeq(l, IsCollective))
CountOp(l, op) == Cardinality({i \in 1..Len(l) : l[i].op = op})
HasOp(l, op) == \E i \in 1..Len(l) : l[i].op = op

(* Every rank has returned from update: the loop goes on, unless the      *)
(* ranks entered different collectives, which leaves the job out of step. *)
EndUpdate ==
  /\ pc = "update"
  /\ ran = Ranks
  /\ pc' = IF \A r \in Ranks : Collectives(log[r]) = Collectives(log[0])
           THEN "solve" ELSE "desync"
  /\ UNCHANGED <<par, nranks, Tp, ulX, fu, fu_hat, dfu_hat, up, count,
                 tstep, ran, log>>

Finish ==
  /\ pc = "solve"
  /\ ~MoreSteps
  /\ pc' = "done"
  /\ UNCHANGED <<par, nranks, Tp, ulX, fu, fu_hat, dfu_hat, up, count,
                 tstep, ran, log>>

(* The script as shipped *)
Init ==
  /\ pc = "alloc"
  /\ ulX \in Profiles
  /\ \E n \in 1..MaxRanks : Allocated(n, T, ShippedPar)

Next ==
  \/ Initialize
  \/ Main
  \/ SolveStep
  \/ \E r \in Ranks : UpdateRank(r)
  \/ EndUpdate
  \/ Finish

Spec == Init /\ [][Next]_vars

(* The script run with other parameters, on two ranks or more *)
ParChoices ==
  {[write_slice_tstep |-> ws, write_tstep |-> wf, Compute_energy |-> ce,
    plot_tstep |-> pl, end_time |-> MaxParSteps] :
     ws \in Periods, wf \in Periods, ce \in Periods, pl \in PlotPeriods}

InitPar ==
  /\ pc = "alloc"
  /\ ulX \in Profiles
  /\ \E n \in 2..MaxRanks : \E p \in ParChoices : Allocated(n, T, p)

SpecPar == InitPar /\ [][Next]_vars

(* ------------------------------------- NonlinearRHS called on its own *)
(* The integrator passes the coefficients of its next stage *)
NextStage ==
  /\ pc = "stage"
  /\ count < MaxCalls
  /\ \E h \in RHSInputs : fu_hat' = h
  /\ pc' = "rhs"
  /\ UNCHANGED <<par, nranks, Tp, ulX, fu, dfu_hat, up, count, tstep, ran, log>>

CallRHS ==
  /\ pc = "rhs"
  /\ IF Accepts(Tp)
     THEN /\ LET res == NonlinearRHS(fu_hat, dfu_hat)
             IN  /\ dfu_hat' = res.dfu_hat
                 /\ up' = res.up
          /\ count' = count + 1
          /\ pc' = "stage"
     ELSE /\ pc' = "error"
          /\ UNCHANGED <<dfu_hat, up, count>>
  /\ UNCHANGED <<par, nranks, Tp, ulX, fu, fu_hat, tstep, ran, log>>

InitRHS ==
  /\ pc = "stage"
  /\ ulX = Zero
  /\ Allocated(1, T, ShippedPar)

NextRHS == NextStage \/ CallRHS

SpecRHS == InitRHS /\ [][NextRHS]_vars

(* The script with the line "Tp = T" commented out, or left in *)
InitPad ==
  /\ pc = "stage"
  /\ ulX = Zero
  /\ \E space \in {T, PaddedSpace} : Allocated(1, space, ShippedPar)

SpecPad == InitPad /\ [][NextRHS]_vars

(* ================================================================ claims *)
(* C1: every call of NonlinearRHS returns the right-hand side of the       *)
(* mixed system: the u-part of dfu_hat is the f-part of fu_hat, and the    *)
(* f-part is forward(gamma*up**3) + L*u_hat with up = backward(u_hat) and  *)
(* L = -(|k|^2 + gamma), gamma = 1.  Stated without division: 4 times the  *)
(* f-part plus (4|k|^2 + 4)*u_hat, transformed back, is 4*up**3.           *)
C1_RightHandSide ==
  (pc = "stage" /\ count > 0) =>
    LET f_hat == fu_hat[1]
        u_hat == fu_hat[2]
        w == [i \in 1..2 |-> 4 * dfu_hat[1][i] + (FourKSq[i] + 4) * u_hat[i]]
    IN  /\ dfu_hat[2] = f_hat
        /\ up = Backward(u_hat)
        /\ \A j \in 1..2 : Backward(w)[j] = 4 * up[j] * up[j] * up[j]

C1_Witness ==
  /\ pc = "stage"
  /\ count > 0
  /\ fu_hat = <<<<1, -1>>, <<1, 4>>>>
  /\ dfu_hat = <<<<48, 71>>, <<1, -1>>>>

(* C2: with the shipped parameters a call of update writes the slices iff  *)
(* tstep % 10 = 0 and the full field iff tstep % 50 = 0, each once, the    *)
(* slices before the full field.                                           *)
C2_WriteSchedule ==
  \A r \in ran :
    LET l == log[r]
    IN  /\ CountOp(l, "write_slice") = (IF tstep % 10 = 0 THEN 1 ELSE 0)
        /\ CountOp(l, "write_full") = (IF tstep % 50 = 0 THEN 1 ELSE 0)
        /\ \A i, j \in 1..Len(l) :
             (l[i].op = "write_slice" /\ l[j].op = "write_full") => i < j

C2_Witness ==
  /\ tstep = 50
  /\ nranks = 2
  /\ ran = Ranks
  /\ \A r \in Ranks : HasOp(log[r], "write_slice") /\ HasOp(log[r], "write_full")

(* C3: the diagnostics are computed by every rank exactly at the steps     *)
(* with tstep % 100 = 0, where rank 0 alone prints one line; at any other  *)
(* step no rank computes or prints them.                                   *)
C3_EnergySchedule ==
  \A r \in ran :
    LET l == log[r]
    IN  /\ CountOp(l, "energy") = (IF tstep % 100 = 0 THEN 1 ELSE 0)
        /\ CountOp(l, "print") = (IF r = 0 /\ tstep % 100 = 0 THEN 1 ELSE 0)

C3_Witness ==
  /\ tstep = 100
  /\ nranks = 2
  /\ ran = Ranks
  /\ HasOp(log[0], "print")
  /\ HasOp(log[1], "energy")

(* C4: when solve is first entered f and the f-part of fu_hat are zero, u  *)
(* is the sampled initial pulse on every rank, and the u-part of fu_hat    *)
(* itself is the forward transform of u.                                   *)
C4_InitialCondition ==
  (pc = "solve" /\ tstep = 0) =>
    /\ \A r \in Ranks : fu[r] = <<Zero, ulX>>
    /\ fu_hat[1] = Zero
    /\ 2 * fu_hat[2][1] = ulX[1] + ulX[2]
    /\ 2 * fu_hat[2][2] = ulX[1] - ulX[2]

C4_Witness ==
  /\ pc = "solve"
  /\ tstep = 0
  /\ nranks = 2
  /\ ulX = <<0, 8>>
  /\ fu_hat = <<Zero, <<4, -4>>>>

(* C5: with "Tp = T" commented out the padded bases agree with K0, K1, K2  *)
(* in size, family, dtype and domain and differ in padding_factor only,    *)
(* so a call of NonlinearRHS runs on the padded space.                     *)
C5_PaddedSpaceFits ==
  (Tp = PaddedSpace /\ (count > 0 \/ pc = "error")) =>
    /\ \A i \in 1..3 :
         /\ Tp[i].N = T[i].N
         /\ Tp[i].family = T[i].family
         /\ Tp[i].dtype = T[i].dtype
         /\ Tp[i].domain = T[i].domain
         /\ Tp[i].padding_factor = <<3, 2>>
    /\ Accepts(Tp)
    /\ pc # "error"

ReadOps == {"plot", "write_slice", "write_full", "energy"}

(* C6: a call of update transforms once if one of its branches fires on    *)
(* the rank and not at all otherwise, the transform comes before every     *)
(* read of the physical fields, and what is read is the transform of the   *)
(* current fu_hat.                                                         *)
C6_TransformOnceBeforeReads ==
  \A r \in ran :
    LET l == log[r]
        fires == /\ ~(r = 0 /\ par.plot_tstep = 0)
                 /\ \/ r = 0 /\ par.plot_tstep > 0 /\ tstep % par.plot_tstep = 0
                    \/ tstep % par.write_slice_tstep = 0
                    \/ tstep % par.write_tstep = 0
                    \/ tstep % par.Compute_energy = 0
    IN  /\ CountOp(l, "backward") = (IF fires THEN 1 ELSE 0)
        /\ \A i \in 1..Len(l) :
             l[i].op \in ReadOps =>
               /\ \E j \in 1..(i - 1) : l[j].op = "backward"
               /\ l[i].data = (IF l[i].op = "plot" THEN Backward(fu_hat[2])
                               ELSE BackwardTT(fu_hat))

C6_Witness ==
  /\ tstep = 2
  /\ ran = Ranks
  /\ fu_hat # <<Zero, Zero>>
  /\ CountOp(log[0], "backward") = 1
  /\ HasOp(log[0], "plot")
  /\ HasOp(log[0], "write_slice")
  /\ HasOp(log[0], "energy")
  /\ CountOp(log[1], "backward") = 1
  /\ HasOp(log[1], "write_full")

(* C7: with the shipped parameters every rank enters the same collective   *)
(* operations in the same order in a call of update, with the same number  *)
(* of backward transforms, and the job never falls out of step.            *)
C7_SameCollectives ==
  /\ pc # "desync"
  /\ \A r \in ran :
       0 \in ran =>
         /\ Collectives(log[r]) = Collectives(log[0])
         /\ CountOp(log[r], "backward") = CountOp(log[0], "backward")

C7_Witness ==
  /\ pc = "solve"
  /\ tstep = 100
  /\ nranks = 2
  /\ ran = Ranks
  /\ HasOp(log[0], "plot")
  /\ CountOp(log[1], "backward") = 1

(* C8: for any positive parameters all ranks perform the same number of    *)
(* backward transforms in a call of update.                                *)
C8_SameBackwardCount ==
  (par.plot_tstep > 0) =>
    \A r \in ran :
      0 \in ran => CountOp(log[r], "backward") = CountOp(log[0], "backward")

(* C9: a plot_tstep <= 0 disables plotting without an error: rank 0 skips  *)
(* the plot branch and raises nothing.                                     *)
C9_NonPositivePlotSkips ==
  (par.plot_tstep <= 0) =>
    /\ pc # "error"
    /\ 0 \in ran => ~HasOp(log[0], "plot")

====
